---- MODULE Spec2Model ----
(***************************************************************************)
(* Model of src/main.py: a Telegram bot that relays text messages to a     *)
(* generative backend and keeps per-chat history in a Firebase store.      *)
(*                                                                         *)
(* Texts are sequences of characters.  The character "E" stands for a      *)
(* character outside the Basic Multilingual Plane (an emoji): one element  *)
(* of a Python str, two UTF-16 code units in Telegram's entity offsets.    *)
(***************************************************************************)
EXTENDS Integers, Sequences, FiniteSets, TLC

(* ---------------- bounds of the model ---------------- *)

\* number of inbound updates the webhook dispatches in one behaviour
MaxMsgs == 1

\* longest chat history the store holds when a history read is examined
MaxHistory == 12

(* ---------------- program constants ---------------- *)

\* limit_to_last(10)
HistoryLimit == 10

\* the bot's user name (context.bot.username), and "@" + user name
BotUsername == <<"b">>
BotMention == <<"@">> \o BotUsername

\* application.bot.id, and the id of some other user
BotId == 100
OtherUserId == 7

\* the fixed apology of line 157
ApologyText == <<"sorry">>

\* texts the generation backend may return (response.text)
GeneratedTexts == {<<"r">>}

(* ---------------- Python str operations ---------------- *)

IsSpace(c) == c = " "

Min(a, b) == IF a < b THEN a ELSE b

\* text[a:b] for 0 <= a, 0 <= b: Python clamps both ends to the length
PySlice(text, a, b) ==
    LET hi == Min(b, Len(text))
    IN  IF a >= hi THEN <<>> ELSE SubSeq(text, a + 1, hi)

RECURSIVE LStrip(_)
LStrip(text) ==
    IF text # <<>> /\ IsSpace(Head(text)) THEN LStrip(Tail(text)) ELSE text

RECURSIVE RStrip(_)
RStrip(text) ==
    IF text # <<>> /\ IsSpace(text[Len(text)])
    THEN RStrip(SubSeq(text, 1, Len(text) - 1))
    ELSE text

\* str.strip()
Strip(text) == RStrip(LStrip(text))

StartsWith(text, sub) ==
    Len(sub) <= Len(text) /\ SubSeq(text, 1, Len(sub)) = sub

\* sub in text
Contains(text, sub) ==
    \E i \in 0..Len(text) : StartsWith(PySlice(text, i, Len(text)), sub)

\* text.replace(sub, ""): every non-overlapping occurrence, left to right
RECURSIVE RemoveAll(_, _)
RemoveAll(text, sub) ==
    IF text = <<>> THEN <<>>
    ELSE IF StartsWith(text, sub)
         THEN RemoveAll(PySlice(text, Len(sub), Len(text)), sub)
         ELSE <<Head(text)>> \o RemoveAll(Tail(text), sub)

(* ---------------- Telegram updates ---------------- *)

\* UTF-16 code units of one character
Utf16Width(c) == IF c = "E" THEN 2 ELSE 1

\* UTF-16 offset of the character at Python index i (0-based) of text
RECURSIVE Utf16Offset(_, _)
Utf16Offset(text, i) ==
    IF i = 0 THEN 0 ELSE Utf16Offset(text, i - 1) + Utf16Width(text[i])

IsNameChar(c) == c \in {"b", "c", "h"}

\* length of the run of user-name characters of text starting at index i (1-based)
RECURSIVE NameRun(_, _)
NameRun(text, i) ==
    IF i > Len(text) \/ ~IsNameChar(text[i]) THEN 0 ELSE 1 + NameRun(text, i + 1)

\* the "mention" entities Telegram attaches to a text: one per @name token,
\* offset and length counted in UTF-16 code units
RECURSIVE MentionsFrom(_, _)
MentionsFrom(text, i) ==
    IF i > Len(text) THEN <<>>
    ELSE IF text[i] = "@" /\ NameRun(text, i + 1) > 0
              /\ (i = 1 \/ ~IsNameChar(text[i - 1]))
         THEN <<[type |-> "mention",
                 offset |-> Utf16Offset(text, i - 1),
                 length |-> 1 + NameRun(text, i + 1)]>>
              \o MentionsFrom(text, i + 1 + NameRun(text, i + 1))
         ELSE MentionsFrom(text, i + 1)

MentionEntities(text) == MentionsFrom(text, 1)

\* an entity of another type covering the whole text
BoldEntity(text) ==
    [type |-> "bold", offset |-> 0, length |-> Utf16Offset(text, Len(text))]

\* An update as handle_message sees it.  has_message = FALSE is an update
\* whose update.message is None; text = <<>> is a message without text.
\* reply_from is the id of the author of reply_to_message, 0 without one.
MkUpdate(ct, cid, t, ents, rf) ==
    [has_message |-> TRUE, chat_type |-> ct, chat_id |-> cid, user_id |-> 1,
     message_id |-> 0, text |-> t, entities |-> ents, reply_from |-> rf]

NoMessageUpdate ==
    [has_message |-> FALSE, chat_type |-> "private", chat_id |-> 1, user_id |-> 1,
     message_id |-> 0, text |-> <<>>, entities |-> <<>>, reply_from |-> 0]

(* ---------------- should_respond, lines 53-69 ---------------- *)

\* update.message.text[entity.offset:entity.offset+entity.length]
EntityText(update, entity) ==
    PySlice(update.text, entity.offset, entity.offset + entity.length)

HasBotMention(update, bot_username) ==
    \E i \in 1..Len(update.entities) :
        /\ update.entities[i].type = "mention"
        /\ EntityText(update, update.entities[i]) = <<"@">> \o bot_username

IsReplyToBot(update) ==
    update.reply_from # 0 /\ update.reply_from = BotId

should_respond(update, bot_username) ==
    IF update.chat_type = "private" THEN TRUE
    ELSE IF update.chat_type \in {"group", "supergroup"}
         THEN HasBotMention(update, bot_username) \/ IsReplyToBot(update)
         ELSE FALSE

\* the mention removed and the result left untrimmed
StrippedTextUntrimmed(update, bot_username) ==
    LET t == Strip(update.text)
    IN  IF update.chat_type # "private" /\ Contains(t, <<"@">> \o bot_username)
        THEN RemoveAll(t, <<"@">> \o bot_username)
        ELSE t

\* message_text of lines 90-95
StrippedText(update, bot_username) ==
    LET t == Strip(update.text)
    IN  IF update.chat_type # "private" /\ Contains(t, <<"@">> \o bot_username)
        THEN Strip(RemoveAll(t, <<"@">> \o bot_username))
        ELSE t

(* ---------------- the store (Firebase Realtime Database) ---------------- *)

ChatIds == {1, 2}

\* A child of chats/<chat id>.  has is the set of keys the stored value
\* carries; ex is the exchange (dispatch number) that wrote it, 0 for a
\* record that was in the store before the process started.
Turn(sender, text, ts, ex) ==
    [has |-> {"sender", "text", "timestamp"},
     sender |-> sender, text |-> text, timestamp |-> ts, ex |-> ex]

\* the child push() creates before set() fills it: the empty string
Placeholder(ex) ==
    [has |-> {}, sender |-> "", text |-> <<>>, timestamp |-> 0, ex |-> ex]

\* a record some other writer left without a 'text' child
NoTextRecord(sender, ts) ==
    [has |-> {"sender", "timestamp"},
     sender |-> sender, text |-> <<>>, timestamp |-> ts, ex |-> 0]

IsTurn(rec) == rec.has = {"sender", "text", "timestamp"}

InboxRecord(update, text, ts, ex) ==
    [has |-> {"user_id", "chat_id", "message_id", "text", "timestamp"},
     user_id |-> update.user_id, chat_id |-> update.chat_id,
     message_id |-> update.message_id, text |-> text, timestamp |-> ts, ex |-> ex]

InboxPlaceholder(update, ex) ==
    [has |-> {}, user_id |-> 0, chat_id |-> 0, message_id |-> 0,
     text |-> <<>>, timestamp |-> 0, ex |-> ex]

\* order_by_child('timestamp'): a child without the key sorts before every
\* number; equal values sort by key, which is the position in the sequence
OrderKey(rec) == IF "timestamp" \in rec.has THEN rec.timestamp ELSE -1

OrderedBefore(hist, i, j) ==
    \/ OrderKey(hist[i]) < OrderKey(hist[j])
    \/ OrderKey(hist[i]) = OrderKey(hist[j]) /\ i < j

\* the positions of hist in query order
OrderByTimestamp(hist) ==
    [k \in 1..Len(hist) |->
        CHOOSE i \in 1..Len(hist) :
            Cardinality({j \in 1..Len(hist) : OrderedBefore(hist, j, i)}) = k - 1]

\* limit_to_first(n) in place of limit_to_last(n)
LimitToFirst(seq, n) ==
    IF Len(seq) <= n THEN seq ELSE SubSeq(seq, 1, n)

\* limit_to_last(n) of an ordered sequence
LimitToLast(seq, n) ==
    IF Len(seq) <= n THEN seq ELSE SubSeq(seq, Len(seq) - n + 1, Len(seq))

\* the query with an odd limit, one less than limit_to_last(10)
QuerySnapshotOddLimit(hist) == LimitToLast(OrderByTimestamp(hist), HistoryLimit - 1)

\* history_query.get(): the keys (positions) of the snapshot, in order
QuerySnapshot(hist) == LimitToLast(OrderByTimestamp(hist), HistoryLimit)

\* line 121
RoleOf(sender) == IF sender = "user" THEN "user" ELSE "model"

\* msg_data['sender'] or msg_data['text'] raises on this record
ConversionRaises(rec) == "sender" \notin rec.has \/ "text" \notin rec.has

\* number of records the loop of lines 120-122 converts before it raises
RECURSIVE ConvertedPrefix(_, _, _)
ConvertedPrefix(hist, snap, k) ==
    IF k > Len(snap) \/ ConversionRaises(hist[snap[k]]) THEN k - 1
    ELSE ConvertedPrefix(hist, snap, k + 1)

\* the list history after lines 119-122 ran over the snapshot
BuildHistory(hist, snap) ==
    [k \in 1..ConvertedPrefix(hist, snap, 1) |->
        [role |-> RoleOf(hist[snap[k]].sender), parts |-> hist[snap[k]].text]]

LoopRaises(hist, snap) == ConvertedPrefix(hist, snap, 1) < Len(snap)

(* ---------------- state ---------------- *)

VARIABLES
    startup,        \* outcome of lines 34-46: "pending", "absent", "raised", "ok"
    init_attempts,  \* calls of firebase_admin.initialize_app so far
    firebase_ref,   \* the global of line 35: "None" or "ref"
    store_chats,    \* chats/<chat id>: the children in key order
    store_inbox,    \* inbox_logs: the children in key order
    now,            \* the store server's clock
    dispatched,     \* updates the webhook has handed to the event loop
    running,        \* the handler the event loop is executing, 0 when idle
    pc,             \* per handler: its position in handle_message
    upd,            \* per handler: the update
    message_text,   \* per handler: the local of lines 90-95
    history,        \* per handler: the local of line 114
    reply_text,     \* per handler: the local of line 130
    prompt,         \* per handler: the arguments of the generation call, line 128-129
    trace,          \* per handler: the external calls made so far, with outcome
    sent            \* per handler: the replies delivered to update's chat

vars == <<startup, init_attempts, firebase_ref, store_chats, store_inbox, now,
          dispatched, running, pc, upd, message_text, history,
          reply_text, prompt, trace, sent>>

bootVars == <<startup, init_attempts, firebase_ref>>

Handlers == 1..MaxMsgs

\* the updates the webhook delivers
Updates ==
    { MkUpdate("private", 1, <<"h">>, <<>>, 0),
      MkUpdate("group", 2, <<"h">>, <<>>, 0),
      MkUpdate("group", 2, <<"@", "b", " ", "h">>,
               MentionEntities(<<"@", "b", " ", "h">>), 0),
      NoMessageUpdate }

\* what the store holds under chats/ when the process starts
InitialChats ==
    { [c \in ChatIds |->
          IF c = 1
          THEN <<Turn("user", <<"h">>, 1, 0), Turn("bot", <<"r">>, 2, 0)>>
          ELSE <<>>],
      [c \in ChatIds |->
          IF c = 1
          THEN <<Turn("user", <<"h">>, 1, 0), NoTextRecord("bot", 2)>>
          ELSE <<Turn("admin", <<"c">>, 2, 0), Turn("user", <<"h">>, 1, 0)>>] }

Init ==
    /\ startup = "pending"
    /\ init_attempts = 0
    /\ firebase_ref = "None"
    /\ store_chats \in InitialChats
    /\ store_inbox = <<>>
    /\ now = 2
    /\ dispatched = 0
    /\ running = 0
    /\ pc = [h \in Handlers |-> "idle"]
    /\ upd = [h \in Handlers |-> NoMessageUpdate]
    /\ message_text = [h \in Handlers |-> <<>>]
    /\ history = [h \in Handlers |-> <<>>]
    /\ reply_text = [h \in Handlers |-> <<>>]
    /\ prompt = [h \in Handlers |-> <<>>]
    /\ trace = [h \in Handlers |-> <<>>]
    /\ sent = [h \in Handlers |-> <<>>]

(* ---------------- module initialisation, lines 34-46 ---------------- *)

\* cred: FIREBASE_SERVICE_ACCOUNT_JSON is "absent", "invalid" (json.loads,
\* Certificate or initialize_app raises) or "ok"
InitFirebase(cred) ==
    /\ startup = "pending"
    /\ startup' = CASE cred = "absent" -> "absent"
                    [] cred = "invalid" -> "raised"
                    [] OTHER -> "ok"
    /\ init_attempts' = IF cred = "absent" THEN init_attempts ELSE init_attempts + 1
    /\ firebase_ref' = IF cred = "ok" THEN "ref" ELSE firebase_ref
    /\ UNCHANGED <<store_chats, store_inbox, now, dispatched, running,
                   pc, upd, message_text, history, reply_text, trace, sent, prompt>>

(* ---------------- webhook, lines 160-165 ---------------- *)

\* run_coroutine_threadsafe: the event loop, when it is not inside a handler,
\* makes the update a task
Webhook(update) ==
    /\ startup # "pending"
    /\ running = 0
    /\ dispatched < MaxMsgs
    /\ dispatched' = dispatched + 1
    /\ pc' = [pc EXCEPT ![dispatched + 1] = "recv"]
    /\ upd' = [upd EXCEPT ![dispatched + 1] =
                  [update EXCEPT !.message_id = dispatched + 1]]
    /\ UNCHANGED <<bootVars, store_chats, store_inbox, now, running,
                   message_text, history, reply_text, trace, sent, prompt>>

(* ---------------- handle_message, lines 79-157 ---------------- *)

\* one external call and how it ended
Call(name, res) == [call |-> name, res |-> res]

Logged(h, name, res) == [trace EXCEPT ![h] = Append(@, Call(name, res))]

\* the position of the child handler h pushed and has not filled yet
\* (log_ref, user_msg_ref, bot_msg_ref)
PushedRef(children, h) ==
    CHOOSE i \in 1..Len(children) : children[i].ex = h /\ children[i].has = {}

\* lines 81-86: the early returns and the gate
Passes(update) ==
    /\ update.has_message
    /\ update.text # <<>>
    /\ should_respond(update, BotUsername)

\* the handler started on a thread of its own, whatever the event loop is
\* executing
BeginOnOwnThread(h) ==
    /\ pc[h] = "recv"
    /\ pc' = [pc EXCEPT ![h] = IF Passes(upd[h]) THEN "log_push" ELSE "done"]
    /\ running' = h
    /\ message_text' =
           [message_text EXCEPT ![h] =
               IF Passes(upd[h]) THEN StrippedText(upd[h], BotUsername) ELSE @]
    /\ UNCHANGED <<bootVars, store_chats, store_inbox, now, dispatched,
                   upd, history, reply_text, prompt, trace, sent>>

\* lines 81-97: the early returns, the gate and the stripping of the mention.
\* The event loop runs the handler from here up to its first await.
Begin(h) ==
    /\ pc[h] = "recv"
    /\ running = 0
    /\ IF Passes(upd[h])
       THEN /\ pc' = [pc EXCEPT ![h] = "log_push"]
            /\ running' = h
            /\ message_text' =
                   [message_text EXCEPT ![h] = StrippedText(upd[h], BotUsername)]
       ELSE /\ pc' = [pc EXCEPT ![h] = "done"]
            /\ running' = h
            /\ UNCHANGED message_text
    /\ UNCHANGED <<bootVars, store_chats, store_inbox, now, dispatched,
                   upd, history, reply_text, trace, sent, prompt>>

\* the store calls made without the test of firebase_ref
UnguardedStore == TRUE

\* line 100, 115, 133: if firebase_ref
HasStore == firebase_ref = "ref"

\* lines 100-102: firebase_ref.child('inbox_logs').push()
LogPush(h) ==
    /\ pc[h] = "log_push"
    /\ running = h
    /\ \/ /\ ~HasStore
          /\ pc' = [pc EXCEPT ![h] = "read"]
          /\ UNCHANGED <<store_inbox, trace>>
       \/ /\ HasStore
          /\ store_inbox' = Append(store_inbox, InboxPlaceholder(upd[h], h))
          /\ trace' = Logged(h, "log_push", "ok")
          /\ pc' = [pc EXCEPT ![h] = "log_set"]
       \/ /\ HasStore
          /\ trace' = Logged(h, "log_push", "fail")
          /\ pc' = [pc EXCEPT ![h] = "read"]
          /\ UNCHANGED store_inbox
    /\ UNCHANGED <<bootVars, store_chats, now, dispatched, running, upd,
                   message_text, history, reply_text, sent, prompt>>

\* lines 103-111: log_ref.set({...}) with the server's timestamp
LogSet(h) ==
    /\ pc[h] = "log_set"
    /\ running = h
    /\ pc' = [pc EXCEPT ![h] = "read"]
    /\ \/ /\ store_inbox' =
                 [store_inbox EXCEPT ![PushedRef(store_inbox, h)] =
                     InboxRecord(upd[h], message_text[h], now, h)]
          /\ trace' = Logged(h, "log_set", "ok")
       \/ /\ trace' = Logged(h, "log_set", "fail")
          /\ UNCHANGED store_inbox
    /\ UNCHANGED <<bootVars, store_chats, now, dispatched, running, upd,
                   message_text, history, reply_text, sent, prompt>>

\* lines 114-124: the last 10 children by timestamp, converted in order;
\* an exception leaves history as the loop had built it so far
ReadHistory(h) ==
    /\ pc[h] = "read"
    /\ running = h
    /\ pc' = [pc EXCEPT ![h] = "gen"]
    /\ \/ /\ ~HasStore
          /\ UNCHANGED <<history, trace>>
       \/ /\ HasStore
          /\ trace' = Logged(h, "read", "fail")
          /\ UNCHANGED history
       \/ /\ HasStore
          /\ LET hist == store_chats[upd[h].chat_id]
                 snapshot == QuerySnapshot(hist)
             IN  /\ history' = [history EXCEPT ![h] = BuildHistory(hist, snapshot)]
                 /\ trace' = Logged(h, "read",
                                IF LoopRaises(hist, snapshot)
                                THEN "convert_fail" ELSE "ok")
    /\ UNCHANGED <<bootVars, store_chats, store_inbox, now, dispatched, running,
                   upd, message_text, reply_text, sent, prompt>>

\* the reply sent right after the generation, the appends left out
AfterGenerateSendsFirst == "send"

\* where the handler goes after the generation succeeded: lines 133-153
AfterGenerate == IF HasStore THEN "push_user" ELSE "send"

\* a generation error swallowed, the handler going on to line 153
GenerateErrorIgnored == "send"

\* where an exception of lines 128-130 is handled: line 155
OnGenerateError == "apology"

\* lines 127-130: start_chat(history), send_message(message_text), response.text
Generate(h) ==
    /\ pc[h] = "gen"
    /\ running = h
    /\ prompt' = [prompt EXCEPT ![h] =
                      <<[history |-> history[h], message |-> message_text[h]]>>]
    /\ \/ \E text \in GeneratedTexts :
             /\ reply_text' = [reply_text EXCEPT ![h] = text]
             /\ trace' = Logged(h, "gen", "ok")
             /\ pc' = [pc EXCEPT ![h] = AfterGenerate]
       \/ /\ trace' = Logged(h, "gen", "fail")
          /\ pc' = [pc EXCEPT ![h] = OnGenerateError]
          /\ UNCHANGED reply_text
    /\ UNCHANGED <<bootVars, store_chats, store_inbox, now, dispatched, running,
                   upd, message_text, history, sent>>

\* the appends without their own try: the error reaches line 155
AppendErrorUncaught == "apology"

\* lines 149-150: the one except clause around both appends logs the error;
\* control continues at line 153
OnAppendError == "send"

\* a child of chats/<chat id> written by set(): lines 137-141 and 144-148
UserTurn(h, ts) == Turn("user", message_text[h], ts, h)
\* the bot's Turn written with the sender of the user's Turn
BotTurnAsUser(h, ts) == Turn("user", reply_text[h], ts, h)
BotTurn(h, ts) == Turn("bot", reply_text[h], ts, h)

\* push() under a fixed chat, whatever chat the update came from
PushTurnFixedChat(h, who, here, next) ==
    /\ pc[h] = here
    /\ running = h
    /\ store_chats' = [store_chats EXCEPT ![1] = Append(@, Placeholder(h))]
    /\ trace' = Logged(h, who \o "_push", "ok")
    /\ pc' = [pc EXCEPT ![h] = OnAppendError]
    /\ UNCHANGED <<bootVars, store_inbox, now, dispatched, running, upd,
                   message_text, history, reply_text, sent, prompt>>

\* push() under chats/<chat id>: line 136 (who = "user") and line 143 ("bot")
PushTurn(h, who, here, next) ==
    /\ pc[h] = here
    /\ running = h
    /\ \/ /\ store_chats' = [store_chats EXCEPT ![upd[h].chat_id] =
                                Append(@, Placeholder(h))]
          /\ trace' = Logged(h, who \o "_push", "ok")
          /\ pc' = [pc EXCEPT ![h] = next]
       \/ /\ trace' = Logged(h, who \o "_push", "fail")
          /\ pc' = [pc EXCEPT ![h] = OnAppendError]
          /\ UNCHANGED store_chats
    /\ UNCHANGED <<bootVars, store_inbox, now, dispatched, running, upd,
                   message_text, history, reply_text, sent, prompt>>

\* set() of the pushed child; the server stamps it with its clock, which
\* never runs backwards
SetTurn(h, who, here, next) ==
    /\ pc[h] = here
    /\ running = h
    /\ \/ /\ \E d \in 0..1 :
               /\ now' = now + d
               /\ store_chats' =
                    [store_chats EXCEPT ![upd[h].chat_id] =
                        [@ EXCEPT ![PushedRef(@, h)] =
                            IF who = "user" THEN UserTurn(h, now + d)
                            ELSE BotTurn(h, now + d)]]
          /\ trace' = Logged(h, who \o "_set", "ok")
          /\ pc' = [pc EXCEPT ![h] = next]
       \/ /\ trace' = Logged(h, who \o "_set", "fail")
          /\ pc' = [pc EXCEPT ![h] = OnAppendError]
          /\ UNCHANGED <<store_chats, now>>
    /\ UNCHANGED <<bootVars, store_inbox, dispatched, running, upd,
                   message_text, history, reply_text, sent, prompt>>

PushUser(h) == PushTurn(h, "user", "push_user", "set_user")
SetUser(h) == SetTurn(h, "user", "set_user", "push_bot")
PushBot(h) == PushTurn(h, "bot", "push_bot", "set_bot")
SetBot(h) == SetTurn(h, "bot", "set_bot", "send")

\* a reply delivered to the chat of the update
Reply(h, kind, text) == [chat |-> upd[h].chat_id, kind |-> kind, text |-> text]

\* line 153 up to the await: the handler calls reply_text(reply_text) and
\* gives the event loop back
SendReply(h) ==
    /\ pc[h] = "send"
    /\ running = h
    /\ pc' = [pc EXCEPT ![h] = "await_send"]
    /\ running' = 0
    /\ UNCHANGED <<bootVars, store_chats, store_inbox, now, dispatched,
                   upd, message_text, history, reply_text, trace, sent, prompt>>

\* where an exception raised by line 153 is handled: line 153 is inside the
\* try of line 127, so the except clause of line 155
OnSendError == "apology"

\* the await of line 153 completes, or raises
ReplyResult(h) ==
    /\ pc[h] = "await_send"
    /\ running = 0
    /\ \/ /\ sent' = [sent EXCEPT ![h] = Append(@, Reply(h, "generated", reply_text[h]))]
          /\ trace' = Logged(h, "send", "ok")
          /\ pc' = [pc EXCEPT ![h] = "done"]
       \/ /\ trace' = Logged(h, "send", "fail")
          /\ pc' = [pc EXCEPT ![h] = OnSendError]
          /\ UNCHANGED sent
    /\ running' = h
    /\ UNCHANGED <<bootVars, store_chats, store_inbox, now, dispatched, upd,
                   message_text, history, reply_text, prompt>>

\* lines 155-157 up to the await: reply_text(<the apology>)
SendApology(h) ==
    /\ pc[h] = "apology"
    /\ running = h
    /\ pc' = [pc EXCEPT ![h] = "await_apology"]
    /\ running' = 0
    /\ UNCHANGED <<bootVars, store_chats, store_inbox, now, dispatched,
                   upd, message_text, history, reply_text, trace, sent, prompt>>

\* where an exception raised by line 157 goes: nothing encloses it, it
\* leaves handle_message
OnApologyError == "raised"

\* the await of line 157 completes, or raises
ApologyResult(h) ==
    /\ pc[h] = "await_apology"
    /\ running = 0
    /\ \/ /\ sent' = [sent EXCEPT ![h] = Append(@, Reply(h, "apology", ApologyText))]
          /\ trace' = Logged(h, "apology", "ok")
          /\ pc' = [pc EXCEPT ![h] = "done"]
       \/ /\ trace' = Logged(h, "apology", "fail")
          /\ pc' = [pc EXCEPT ![h] = OnApologyError]
          /\ UNCHANGED sent
    /\ running' = h
    /\ UNCHANGED <<bootVars, store_chats, store_inbox, now, dispatched, upd,
                   message_text, history, reply_text, prompt>>

\* handle_message has returned or raised: process_update ends without another
\* await, the task with the handler's locals is gone and the event loop is free
Finish(h) ==
    /\ pc[h] \in {"done", "raised"}
    /\ running = h
    /\ running' = 0
    /\ pc' = [pc EXCEPT ![h] = "gone"]
    /\ upd' = [upd EXCEPT ![h] = NoMessageUpdate]
    /\ message_text' = [message_text EXCEPT ![h] = <<>>]
    /\ history' = [history EXCEPT ![h] = <<>>]
    /\ reply_text' = [reply_text EXCEPT ![h] = <<>>]
    /\ prompt' = [prompt EXCEPT ![h] = <<>>]
    /\ trace' = [trace EXCEPT ![h] = <<>>]
    /\ sent' = [sent EXCEPT ![h] = <<>>]
    /\ UNCHANGED <<bootVars, store_chats, store_inbox, now, dispatched>>

Next ==
    \/ \E cred \in {"absent", "invalid", "ok"} : InitFirebase(cred)
    \/ \E update \in Updates : Webhook(update)
    \/ \E h \in Handlers : Begin(h)
    \/ \E h \in Handlers : LogPush(h)
    \/ \E h \in Handlers : LogSet(h)
    \/ \E h \in Handlers : ReadHistory(h)
    \/ \E h \in Handlers : Generate(h)
    \/ \E h \in Handlers : PushUser(h)
    \/ \E h \in Handlers : SetUser(h)
    \/ \E h \in Handlers : PushBot(h)
    \/ \E h \in Handlers : SetBot(h)
    \/ \E h \in Handlers : SendReply(h)
    \/ \E h \in Handlers : ReplyResult(h)
    \/ \E h \in Handlers : SendApology(h)
    \/ \E h \in Handlers : ApologyResult(h)
    \/ \E h \in Handlers : Finish(h)

Spec == Init /\ [][Next]_vars

(* ---------------- one update of any shape, handled to the end ---------------- *)

GateChatTypes == {"private", "group", "supergroup", "channel"}

GateTexts ==
    { <<"h">>,
      <<"@", "b">>,
      <<"@", "b", " ", "h">>,
      <<"h", " ", "@", "b">>,
      <<"@", "c", " ", "h">>,
      <<"@", "b", "c">>,
      <<"c", "@", "b">>,
      <<"E", " ", "@", "b">>,
      <<"E", "E", "@", "c", "@", "b">>,
      <<"@", "b", " ", "h", " ", "@", "b">>,
      <<"@", "@", "b", "b">> }

\* the entity lists Telegram may attach to a text: its mentions, alone or
\* with an entity of another type before or after them
GateEntities(text) ==
    { MentionEntities(text),
      <<BoldEntity(text)>> \o MentionEntities(text),
      MentionEntities(text) \o <<BoldEntity(text)>> }

GateUpdates ==
    { MkUpdate(ct, IF ct = "private" THEN 1 ELSE 2, t, ents, rf) :
        ct \in GateChatTypes, t \in GateTexts, ents \in UNION {GateEntities(x) : x \in GateTexts},
        rf \in {0, BotId, OtherUserId} }

\* an update Telegram can send: the entities belong to the text
WellFormed(update) == update.entities \in GateEntities(update.text)

\* handler 1 has been handed an update and has not started
InitGate ==
    /\ startup = "ok"
    /\ init_attempts = 1
    /\ firebase_ref = "ref"
    /\ store_chats = [c \in ChatIds |-> <<>>]
    /\ store_inbox = <<>>
    /\ now = 2
    /\ dispatched = 1
    /\ running = 0
    /\ pc = [h \in Handlers |-> IF h = 1 THEN "recv" ELSE "idle"]
    /\ \E update \in {u \in GateUpdates : WellFormed(u)} :
           upd = [h \in Handlers |->
                     IF h = 1 THEN [update EXCEPT !.message_id = 1]
                     ELSE NoMessageUpdate]
    /\ message_text = [h \in Handlers |-> <<>>]
    /\ history = [h \in Handlers |-> <<>>]
    /\ reply_text = [h \in Handlers |-> <<>>]
    /\ prompt = [h \in Handlers |-> <<>>]
    /\ trace = [h \in Handlers |-> <<>>]
    /\ sent = [h \in Handlers |-> <<>>]

NextGate ==
    \/ \E h \in Handlers : Begin(h)
    \/ \E h \in Handlers : LogPush(h)
    \/ \E h \in Handlers : LogSet(h)
    \/ \E h \in Handlers : ReadHistory(h)
    \/ \E h \in Handlers : Generate(h)
    \/ \E h \in Handlers : PushUser(h)
    \/ \E h \in Handlers : SetUser(h)
    \/ \E h \in Handlers : PushBot(h)
    \/ \E h \in Handlers : SetBot(h)
    \/ \E h \in Handlers : SendReply(h)
    \/ \E h \in Handlers : ReplyResult(h)
    \/ \E h \in Handlers : SendApology(h)
    \/ \E h \in Handlers : ApologyResult(h)

SpecGate == InitGate /\ [][NextGate]_vars

(* ---------------- the history read on its own ---------------- *)

\* the text of the i-th stored record: i characters, so no two are equal
CtxText(i) == [k \in 1..i |-> "h"]

CtxSender(i, pattern) ==
    IF pattern = "pairs" THEN (IF i % 2 = 1 THEN "user" ELSE "bot")
    ELSE (IF i % 3 = 1 THEN "user" ELSE IF i % 3 = 2 THEN "admin" ELSE "bot")

\* timestamps in key order: increasing, equal in pairs, decreasing, scattered
CtxTimestamp(i, n, scheme) ==
    CASE scheme = "increasing" -> i
      [] scheme = "ties" -> (i + 1) \div 2
      [] scheme = "decreasing" -> n + 1 - i
      [] OTHER -> (i * 5) % 7

\* a stored chat of n records; bad > 0 puts a record without 'text' at bad
CtxHistory(n, pattern, scheme, bad) ==
    [i \in 1..n |->
        IF i = bad
        THEN NoTextRecord(CtxSender(i, pattern), CtxTimestamp(i, n, scheme))
        ELSE Turn(CtxSender(i, pattern), CtxText(i), CtxTimestamp(i, n, scheme), 0)]

CtxHistories ==
    { CtxHistory(n, pattern, scheme, bad) :
        n \in 0..MaxHistory, pattern \in {"pairs", "triples"},
        scheme \in {"increasing", "ties", "decreasing", "scattered"},
        bad \in {0, 1, 3, MaxHistory} }

\* handler 1 passed the gate for a private message of chat 1, the store handle
\* is there and the handler is about to read the history
InitCtx ==
    /\ startup = "ok"
    /\ init_attempts = 1
    /\ firebase_ref = "ref"
    /\ \E hist \in CtxHistories :
           store_chats = [c \in ChatIds |-> IF c = 1 THEN hist ELSE <<>>]
    /\ store_inbox = <<>>
    /\ now = MaxHistory
    /\ dispatched = 1
    /\ running = 1
    /\ pc = [h \in Handlers |-> IF h = 1 THEN "read" ELSE "idle"]
    /\ upd = [h \in Handlers |->
                 IF h = 1
                 THEN [MkUpdate("private", 1, <<"h">>, <<>>, 0) EXCEPT !.message_id = 1]
                 ELSE NoMessageUpdate]
    /\ message_text = [h \in Handlers |-> IF h = 1 THEN <<"h">> ELSE <<>>]
    /\ history = [h \in Handlers |-> <<>>]
    /\ reply_text = [h \in Handlers |-> <<>>]
    /\ prompt = [h \in Handlers |-> <<>>]
    /\ trace = [h \in Handlers |-> <<>>]
    /\ sent = [h \in Handlers |-> <<>>]

NextCtx ==
    \/ \E h \in Handlers : ReadHistory(h)
    \/ \E h \in Handlers : Generate(h)

SpecCtx == InitCtx /\ [][NextCtx]_vars

(* ---------------- several updates handled by one event loop ---------------- *)

\* the tasks of the event loop: one more than the webhook dispatches in Spec
Tasks == 1..(MaxMsgs + 1)

\* updates that pass the gate: a private message of chat 1 and a group
\* message of chat 2 that mentions the bot
PassingUpdates ==
    { MkUpdate("private", 1, <<"h">>, <<>>, 0),
      MkUpdate("group", 2, <<"@", "b", " ", "h">>,
               MentionEntities(<<"@", "b", " ", "h">>), 0) }

\* n exchanges recorded earlier by this program, none of whose appends failed
RecordedExchanges(n) ==
    [i \in 1..(2 * n) |->
        IF i % 2 = 1 THEN Turn("user", <<"h">>, (i + 1) \div 2, 0)
        ELSE Turn("bot", <<"r">>, (i + 1) \div 2, 0)]

\* the updates have been handed to the event loop by the webhook (lines
\* 163-164) and none has started; chat 1 holds no history or five exchanges
InitTasks ==
    /\ startup = "ok"
    /\ init_attempts = 1
    /\ firebase_ref = "ref"
    /\ \E n \in {0, HistoryLimit \div 2} :
           store_chats = [c \in ChatIds |-> IF c = 1 THEN RecordedExchanges(n) ELSE <<>>]
    /\ store_inbox = <<>>
    /\ now = HistoryLimit \div 2
    /\ dispatched = MaxMsgs + 1
    /\ running = 0
    /\ pc = [h \in Tasks |-> "recv"]
    /\ \E f \in [Tasks -> PassingUpdates] :
           upd = [h \in Tasks |-> [f[h] EXCEPT !.message_id = h]]
    /\ message_text = [h \in Tasks |-> <<>>]
    /\ history = [h \in Tasks |-> <<>>]
    /\ reply_text = [h \in Tasks |-> <<>>]
    /\ prompt = [h \in Tasks |-> <<>>]
    /\ trace = [h \in Tasks |-> <<>>]
    /\ sent = [h \in Tasks |-> <<>>]

NextTasks ==
    \/ \E h \in Tasks : Begin(h)
    \/ \E h \in Tasks : LogPush(h)
    \/ \E h \in Tasks : LogSet(h)
    \/ \E h \in Tasks : ReadHistory(h)
    \/ \E h \in Tasks : Generate(h)
    \/ \E h \in Tasks : PushUser(h)
    \/ \E h \in Tasks : SetUser(h)
    \/ \E h \in Tasks : PushBot(h)
    \/ \E h \in Tasks : SetBot(h)
    \/ \E h \in Tasks : SendReply(h)
    \/ \E h \in Tasks : ReplyResult(h)
    \/ \E h \in Tasks : SendApology(h)
    \/ \E h \in Tasks : ApologyResult(h)
    \/ \E h \in Tasks : Finish(h)

SpecTasks == InitTasks /\ [][NextTasks]_vars

(* ---------------- vocabulary of the properties ---------------- *)

\* handle_message has returned (done) or an exception left it (raised)
Finished(h) == pc[h] \in {"done", "raised"}

\* handler h holds an update and its locals
Active(h) == pc[h] \notin {"idle", "gone"}

\* handler h made the external call, with this outcome
Did(h, name) == \E i \in 1..Len(trace[h]) : trace[h][i].call = name
Outcome(h, name, res) == \E i \in 1..Len(trace[h]) : trace[h][i] = Call(name, res)

StoreCalls ==
    {"log_push", "log_set", "read", "user_push", "user_set", "bot_push", "bot_set"}

\* the children exchange h left under chats/<chat id>, in key order
WrittenBy(h, c) ==
    SelectSeq(store_chats[c], LAMBDA rec : rec.ex = h)

\* exchange h left no child under chats/ nor under inbox_logs
WroteNothing(h) ==
    /\ \A c \in ChatIds : WrittenBy(h, c) = <<>>
    /\ \A i \in 1..Len(store_inbox) : store_inbox[i].ex # h

\* one of the two appends of lines 136-148 failed
AppendFailed(h) ==
    \E name \in {"user_push", "user_set", "bot_push", "bot_set"} :
        Outcome(h, name, "fail")

\* the text a Telegram entity refers to: offset and length count UTF-16 code units
Utf16Text(text, offset, length) ==
    LET inside == {i \in 1..Len(text) :
                      /\ Utf16Offset(text, i - 1) >= offset
                      /\ Utf16Offset(text, i - 1) < offset + length}
    IN  [k \in 1..Cardinality(inside) |->
            text[CHOOSE i \in inside :
                    Cardinality({j \in inside : j < i}) = k - 1]]

\* the message has a mention entity whose referenced text is @<bot username>
MentionsBot(update) ==
    \E i \in 1..Len(update.entities) :
        /\ update.entities[i].type = "mention"
        /\ Utf16Text(update.text, update.entities[i].offset,
                     update.entities[i].length) = BotMention

\* what the gate is to answer for a message with text
GateExpected(update) ==
    CASE update.chat_type = "private" -> TRUE
      [] update.chat_type \in {"group", "supergroup"} ->
            MentionsBot(update) \/ update.reply_from = BotId
      [] OTHER -> FALSE

HasText(update) == update.has_message /\ update.text # <<>>

\* terminal states of one message.  A handler that went past the gate calls
\* the generation backend before it ends, so an empty trace at the end means
\* one of the returns of lines 82 and 86.
Ignored(h) == pc[h] = "done" /\ trace[h] = <<>>
Replied(h) ==
    pc[h] = "done" /\ sent[h] = <<Reply(h, "generated", reply_text[h])>>
RepliedWithApology(h) ==
    pc[h] = "done" /\ sent[h] = <<Reply(h, "apology", ApologyText)>>

\* the handler started and did not take an early return
PassedGate(h) == Active(h) /\ pc[h] # "recv" /\ ~Ignored(h)

(* ---------------- C1 ---------------- *)

\* C1: a message that has text and passes the gate gets exactly one reply in
\* its chat, the generated text, or the apology when the generation failed,
\* whatever external steps fail; any other message gets no reply.
C1_ExactlyOneReply ==
    \A h \in Handlers :
        Finished(h) =>
            IF Passes(upd[h])
            THEN /\ Len(sent[h]) = 1
                 /\ sent[h][1].chat = upd[h].chat_id
                 /\ IF Outcome(h, "gen", "fail")
                    THEN sent[h][1] = Reply(h, "apology", ApologyText)
                    ELSE sent[h][1] = Reply(h, "generated", reply_text[h])
            ELSE sent[h] = <<>>

(* ---------------- C2 ---------------- *)

\* C2: when the generation call fails, the handler sends the apology and
\* nothing else, and the exchange leaves no child under chats/ (no user
\* Turn, no bot Turn).
C2_GenerationFailure ==
    \A h \in Handlers :
        Outcome(h, "gen", "fail") =>
            /\ \A c \in ChatIds : WrittenBy(h, c) = <<>>
            /\ ~Did(h, "send")
            /\ \/ pc[h] \in {"apology", "await_apology"} /\ sent[h] = <<>>
               \/ Outcome(h, "apology", "ok") /\ RepliedWithApology(h)
               \/ Outcome(h, "apology", "fail") /\ sent[h] = <<>>

\* a handler with the store handle whose generation failed has apologised
C2_Witness ==
    \E h \in Handlers :
        /\ HasStore
        /\ Outcome(h, "gen", "fail")
        /\ Outcome(h, "read", "ok")
        /\ RepliedWithApology(h)

(* ---------------- C3 ---------------- *)

\* exchange h left exactly a user Turn and then a bot Turn in its chat, the
\* bot Turn stamped no earlier than the user Turn, and nothing elsewhere
TwoTurns(h) ==
    LET recs == WrittenBy(h, upd[h].chat_id)
    IN  /\ Len(recs) = 2
        /\ IsTurn(recs[1]) /\ recs[1].sender = "user"
        /\ recs[1].text = message_text[h]
        /\ IsTurn(recs[2]) /\ recs[2].sender = "bot"
        /\ recs[2].text = reply_text[h]
        /\ recs[2].timestamp >= recs[1].timestamp
        /\ \A c \in ChatIds \ {upd[h].chat_id} : WrittenBy(h, c) = <<>>

\* C3 as stated: after every successful generation the chat has gained
\* exactly two Turns of the exchange, user then bot, bot timestamp >= user
\* timestamp.
C3_AfterEveryGeneration ==
    \A h \in Handlers :
        Finished(h) /\ Outcome(h, "gen", "ok") => TwoTurns(h)

\* C3 amended: after a successful generation with the store handle present
\* and both appends successful, the chat has gained exactly two Turns of the
\* exchange, user then bot, bot timestamp >= user timestamp.
C3_TwoTurnsWhenAppendsSucceed ==
    \A h \in Handlers :
        Outcome(h, "gen", "ok") /\ Outcome(h, "bot_set", "ok") => TwoTurns(h)

C3_Witness ==
    \E h \in Handlers :
        /\ Replied(h)
        /\ Outcome(h, "bot_set", "ok")
        /\ Len(WrittenBy(h, upd[h].chat_id)) = 2
        /\ Len(store_chats[upd[h].chat_id]) > 2

(* ---------------- C4 ---------------- *)

\* C4: should_respond is true for every private message; for a group or
\* supergroup message it is true exactly when a mention entity refers to
\* the text @<bot username> or the message replies to the bot; it is false
\* for every other chat type.
C4_GateAnswer ==
    \A h \in Handlers :
        Active(h) /\ pc[h] # "recv" /\ HasText(upd[h]) =>
            (PassedGate(h) <=> GateExpected(upd[h]))

(* ---------------- C5 ---------------- *)

ReadFailed(h) == Outcome(h, "read", "fail") \/ Outcome(h, "read", "convert_fail")

\* C5: when the history read fails, in the query or while converting a
\* record, no error leaves the read step, the context handed to the
\* generation backend is empty and the generation call is still made.
C5_ReadErrorEmptyContext ==
    \A h \in Handlers :
        ReadFailed(h) =>
            /\ history[h] = <<>>
            /\ pc[h] = "gen" \/ Did(h, "gen")

(* ---------------- C6 ---------------- *)

AllTurns(hist) == \A i \in 1..Len(hist) : IsTurn(hist[i])

\* the stored record a context entry was made from; the stored texts of
\* CtxHistories are pairwise different
SourceOf(hist, entry) == CHOOSE i \in 1..Len(hist) : hist[i].text = entry.parts

\* C6: the context built from a chat's stored Turns has at most 10 entries,
\* they are the 10 Turns with the greatest timestamps (all of them when
\* there are fewer), oldest first, sender user as role user and every other
\* sender as role model.
C6_ContextIsLastTen ==
    \A h \in Handlers :
        LET hist == store_chats[upd[h].chat_id]
            ctx == history[h]
            src == [k \in 1..Len(ctx) |-> SourceOf(hist, ctx[k])]
        IN  Outcome(h, "read", "ok") /\ AllTurns(hist) =>
              /\ Len(ctx) <= 10
              /\ Len(ctx) = Min(Len(hist), 10)
              /\ \A k \in 1..Len(ctx) :
                    /\ \E i \in 1..Len(hist) : hist[i].text = ctx[k].parts
                    /\ ctx[k].role =
                         IF hist[src[k]].sender = "user" THEN "user" ELSE "model"
              /\ \A k1, k2 \in 1..Len(ctx) :
                    k1 < k2 =>
                      /\ src[k1] # src[k2]
                      /\ hist[src[k1]].timestamp <= hist[src[k2]].timestamp
              /\ \A j \in 1..Len(hist) :
                    (\A k \in 1..Len(ctx) : src[k] # j) =>
                        \A k \in 1..Len(ctx) :
                            hist[j].timestamp <= hist[src[k]].timestamp

\* a chat of more than 10 Turns, stored against the order of their
\* timestamps and with a sender that is neither user nor bot, has been read
C6_Witness ==
    \E h \in Handlers :
        LET hist == store_chats[upd[h].chat_id]
        IN  /\ Outcome(h, "read", "ok")
            /\ AllTurns(hist)
            /\ Len(hist) > 10
            /\ Len(history[h]) = 10
            /\ hist[1].timestamp > hist[Len(hist)].timestamp
            /\ \E i \in 1..Len(hist) : hist[i].sender = "admin"

(* ---------------- C7 ---------------- *)

\* a group or supergroup message with no mention of the bot that is no reply
\* to the bot
Unaddressed(update) ==
    /\ HasText(update)
    /\ update.chat_type \in {"group", "supergroup"}
    /\ ~MentionsBot(update)
    /\ update.reply_from # BotId

\* C7: for a group or supergroup message with no bot mention and no
\* reply-to-bot target the handler does nothing: no inbox record, no history
\* read or write, no generation call, no reply.
C7_UnaddressedUntouched ==
    \A h \in Handlers :
        Active(h) /\ Unaddressed(upd[h]) =>
            /\ trace[h] = <<>>
            /\ history[h] = <<>>
            /\ sent[h] = <<>>
            /\ WroteNothing(h)

(* ---------------- C8 ---------------- *)

\* C8: whatever external steps fail, the handler ends Ignored, Replied or
\* RepliedWithApology and no error leaves handle_message.
C8_EndsInTerminalState ==
    \A h \in Handlers :
        /\ pc[h] # "raised"
        /\ Finished(h) => Ignored(h) \/ Replied(h) \/ RepliedWithApology(h)

(* ---------------- C9 ---------------- *)

\* C9: after a successful generation a failed user-Turn or bot-Turn append
\* does not keep the generated reply from being sent: the handler goes on to
\* send the generated text, apologises only if that send itself raises, and
\* when the send succeeds the chat has received the generated text alone.
C9_AppendFailureStillReplies ==
    \A h \in Handlers :
        Outcome(h, "gen", "ok") /\ AppendFailed(h) =>
            /\ pc[h] \in {"send", "await_send"} \/ Did(h, "send")
            /\ pc[h] \in {"apology", "await_apology"} \/ Did(h, "apology")
                  => Outcome(h, "send", "fail")
            /\ Outcome(h, "send", "ok") => Replied(h)

C9_Witness ==
    \E h \in Handlers :
        /\ Outcome(h, "gen", "ok")
        /\ Outcome(h, "user_set", "fail")
        /\ Replied(h)

(* ---------------- C10 ---------------- *)

\* C10: when the start-up did not obtain the store handle (no credentials,
\* or the initialisation raised), the handle stays absent, the
\* initialisation is not attempted again, no handler makes a store call,
\* the store stays as it was, and every message past the gate is generated
\* with an empty context and answered.
C10_NoStoreHandle ==
    startup \in {"absent", "raised"} =>
        /\ firebase_ref = "None"
        /\ init_attempts = (IF startup = "raised" THEN 1 ELSE 0)
        /\ store_inbox = <<>>
        /\ store_chats \in InitialChats
        /\ \A h \in Handlers :
              /\ \A name \in StoreCalls : ~Did(h, name)
              /\ history[h] = <<>>
              /\ Finished(h) /\ Passes(upd[h]) =>
                    /\ Did(h, "gen")
                    /\ Did(h, "send") \/ Did(h, "apology")
              /\ Outcome(h, "gen", "ok") /\ Outcome(h, "send", "ok") => Replied(h)

C10_Witness ==
    /\ startup = "raised"
    /\ \E h \in Handlers :
          /\ Replied(h)
          /\ trace[h] = <<Call("gen", "ok"), Call("send", "ok")>>

(* ---------------- C11 ---------------- *)

\* the positions of text that lie inside an occurrence of sub
Covered(text, sub) ==
    {i \in 1..Len(text) :
        \E a \in 1..Len(text) :
            /\ a <= i /\ i < a + Len(sub)
            /\ a + Len(sub) - 1 <= Len(text)
            /\ SubSeq(text, a, a + Len(sub) - 1) = sub}

\* text restricted to the positions of keep, in order
Restrict(text, keep) ==
    [k \in 1..Cardinality(keep) |->
        text[CHOOSE i \in keep : Cardinality({j \in keep : j < i}) = k - 1]]

\* text without its leading and trailing blanks
Trimmed(text) ==
    LET solid == {i \in 1..Len(text) : text[i] # " "}
    IN  IF solid = {} THEN <<>>
        ELSE SubSeq(text, CHOOSE i \in solid : \A j \in solid : i <= j,
                          CHOOSE i \in solid : \A j \in solid : j <= i)

\* the text the handler is to use for a message: a group or supergroup
\* message loses every occurrence of @<bot username> and is trimmed, a
\* private message keeps its mentions
TextToUse(update) ==
    IF update.chat_type \in {"group", "supergroup"}
    THEN Trimmed(Restrict(update.text,
                          (1..Len(update.text)) \ Covered(update.text, BotMention)))
    ELSE Trimmed(update.text)

\* the inbox records of exchange h that set() has filled
InboxOf(h) == SelectSeq(store_inbox, LAMBDA rec : rec.ex = h /\ "text" \in rec.has)

\* the Turns of sender user exchange h has written
UserTurnsOf(h) ==
    SelectSeq(WrittenBy(h, upd[h].chat_id),
              LAMBDA rec : IsTurn(rec) /\ rec.sender = "user")

\* C11: for a message past the gate, of a group or supergroup with
\* @<bot username> in it or of a private chat, the inbox record, the new
\* message of the generation call and the user Turn all carry the same text:
\* the message text with every occurrence of the mention removed and the
\* result trimmed for the group message, the text with its mentions for the
\* private message.
C11_StrippedTextEverywhere ==
    \A h \in Handlers :
        /\ PassedGate(h)
        /\ \/ upd[h].chat_type = "private"
           \/ /\ upd[h].chat_type \in {"group", "supergroup"}
              /\ Contains(upd[h].text, BotMention)
        => /\ message_text[h] = TextToUse(upd[h])
           /\ \A i \in 1..Len(InboxOf(h)) : InboxOf(h)[i].text = TextToUse(upd[h])
           /\ \A i \in 1..Len(prompt[h]) : prompt[h][i].message = TextToUse(upd[h])
           /\ \A i \in 1..Len(UserTurnsOf(h)) :
                 UserTurnsOf(h)[i].text = TextToUse(upd[h])

\* a group message with the mention twice has been logged, generated for
\* and recorded, with the text between the mentions
C11_Witness ==
    \E h \in Handlers :
        /\ upd[h].chat_type = "group"
        /\ upd[h].text = <<"@", "b", " ", "h", " ", "@", "b">>
        /\ Len(InboxOf(h)) = 1 /\ InboxOf(h)[1].text = <<"h">>
        /\ Len(prompt[h]) = 1 /\ prompt[h][1].message = <<"h">>
        /\ Len(UserTurnsOf(h)) = 1 /\ UserTurnsOf(h)[1].text = <<"h">>
        /\ Replied(h)
(* ---------------- C12 ---------------- *)

\* the Turns of sender bot exchange h has written
BotTurnsOf(h) ==
    SelectSeq(WrittenBy(h, upd[h].chat_id),
              LAMBDA rec : IsTurn(rec) /\ rec.sender = "bot")

UserAppendFailed(h) == Outcome(h, "user_push", "fail") \/ Outcome(h, "user_set", "fail")
BotAppendFailed(h) == Outcome(h, "bot_push", "fail") \/ Outcome(h, "bot_set", "fail")

\* C12: the two appends of an exchange are independent writes: when the
\* handling of a successfully generated message ends (the store handle being
\* there), the user-Turn append and the bot-Turn append have both been
\* attempted, also when the user-Turn append failed; and when the first
\* succeeded and the second failed the store keeps the user Turn of the
\* exchange and no bot Turn.
C12_IndependentAppends ==
    \A h \in Handlers :
        Finished(h) /\ HasStore /\ Outcome(h, "gen", "ok") =>
            /\ Did(h, "user_push")
            /\ Did(h, "bot_push")
            /\ Outcome(h, "user_set", "ok") /\ BotAppendFailed(h) =>
                  /\ Len(UserTurnsOf(h)) = 1
                  /\ BotTurnsOf(h) = <<>>
(* ---------------- C13 ---------------- *)

\* the apology has been sent, or its send is under way
Apologising(h) == pc[h] \in {"apology", "await_apology"} \/ Did(h, "apology")

\* C13: the apology is sent only after a failure of the generation call: in
\* every handling in which the apology send is made the generation call
\* failed and the exchange has recorded no Turn; no other failing step leads
\* to the apology.
C13_ApologyOnlyFromGeneration ==
    \A h \in Handlers :
        Apologising(h) =>
            /\ Outcome(h, "gen", "fail")
            /\ \A c \in ChatIds : WrittenBy(h, c) = <<>>
(* ---------------- C14 ---------------- *)

\* the place of an external call in the pipeline
StepRank(name) ==
    CASE name = "log_push" -> 1
      [] name = "log_set" -> 2
      [] name = "read" -> 3
      [] name = "gen" -> 4
      [] name = "user_push" -> 5
      [] name = "user_set" -> 6
      [] name = "bot_push" -> 7
      [] name = "bot_set" -> 8
      [] name = "send" -> 9
      [] OTHER -> 10

\* the handler is at the reply send of line 153, or past it
AtOrPastSend(h) == pc[h] \in {"send", "await_send"} \/ Did(h, "send")

\* C14: the external steps of a message past the gate happen in the order
\* inbox-log write, history read, generation call, user-Turn append,
\* bot-Turn append, reply send: no step is made after a later one; up to the
\* generation call the exchange has written no Turn, so its context holds
\* none of its own Turns; and when the generated reply is sent the append
\* attempts are over (with the store handle the user-Turn append has been
\* attempted, and the bot-Turn append too unless the user-Turn append failed).
C14_PipelineOrder ==
    \A h \in Handlers :
        /\ \A i, j \in 1..Len(trace[h]) :
              i < j => StepRank(trace[h][i].call) < StepRank(trace[h][j].call)
        /\ pc[h] \in {"recv", "log_push", "log_set", "read", "gen"} =>
              \A c \in ChatIds : WrittenBy(h, c) = <<>>
        /\ Did(h, "gen") /\ Len(InboxOf(h)) > 0 =>
              /\ trace[h][1] = Call("log_push", "ok")
              /\ trace[h][2] = Call("log_set", "ok")
        /\ AtOrPastSend(h) =>
              /\ Outcome(h, "gen", "ok")
              /\ HasStore => Did(h, "user_push")
              /\ Outcome(h, "user_set", "ok") => Did(h, "bot_push")
              /\ Outcome(h, "bot_push", "ok") => Did(h, "bot_set")

\* a message went through every step, each succeeding
C14_Witness ==
    \E h \in Handlers :
        /\ Replied(h)
        /\ [i \in 1..Len(trace[h]) |-> trace[h][i].call] =
              <<"log_push", "log_set", "read", "gen", "user_push", "user_set",
                "bot_push", "bot_set", "send">>
        /\ \A i \in 1..Len(trace[h]) : trace[h][i].res = "ok"
        /\ Len(prompt[h][1].history) = 2
(* ---------------- C15 ---------------- *)

\* how many times handler h made the external call
Attempts(h, name) ==
    Cardinality({i \in 1..Len(trace[h]) : trace[h][i].call = name})

\* the calls of update.message.reply_text handler h has made: those that
\* ended and the one under way
SendAttempts(h) ==
    Attempts(h, "send") + Attempts(h, "apology")
        + (IF pc[h] \in {"await_send", "await_apology"} THEN 1 ELSE 0)

\* every external call but the reply send is made at most once
StoreAndGenerationOnce(h) ==
    \A name \in StoreCalls \cup {"gen"} : Attempts(h, name) <= 1

\* C15: in the handling of one message every external call is made at most
\* once, whatever steps fail: at most one inbox log write, one history read,
\* one generation call, one user-Turn append, one bot-Turn append and one
\* reply send.
C15_EachCallAtMostOnce ==
    \A h \in Handlers :
        /\ StoreAndGenerationOnce(h)
        /\ SendAttempts(h) <= 1
(* ---------------- C16 ---------------- *)

\* handler h is in the part of handle_message that runs without an await:
\* from the gate to the call of reply_text
Synchronous(h) ==
    pc[h] \in {"log_push", "log_set", "read", "gen", "push_user", "set_user",
               "push_bot", "set_bot", "send", "apology"}

\* handler h has read the history and has not finished its append attempts
ReadNotAppended(h) ==
    pc[h] \in {"gen", "push_user", "set_user", "push_bot", "set_bot"}

SameChat(h, k) == h # k /\ upd[h].chat_id = upd[k].chat_id

\* the children of a chat written by one exchange lie next to each other
Contiguous(hist) ==
    \A i, j, l \in 1..Len(hist) :
        i < j /\ j < l /\ hist[i].ex # 0 /\ hist[i].ex = hist[l].ex
            => hist[j].ex = hist[i].ex

\* C16 as stated: two handlers of one chat can race.  Both read before
\* either has appended only if, while one handler has read and not yet
\* appended, the other, dispatched and waiting, can be run; stated for every
\* such state: the waiting handler is not held back.
C16_HandlersCanRace ==
    \A h, k \in Tasks :
        SameChat(h, k) /\ ReadNotAppended(h) /\ pc[k] = "recv"
            => ENABLED Begin(k)

\* C16 amended: the handlings of two messages of one chat do not overlap
\* between the history read and the appends.  While a handler is between
\* its gate and its reply send no other handler takes a step, so no handler
\* reads while another has read and not finished appending, and the
\* children two exchanges leave in a chat never interleave.
C16_HandlersDoNotOverlap ==
    /\ \A h, k \in Tasks :
          h # k /\ Synchronous(h) =>
              /\ ~Synchronous(k)
              /\ running = h
              /\ ~ENABLED Begin(k) /\ ~ENABLED ReplyResult(k) /\ ~ENABLED ApologyResult(k)
    /\ \A c \in ChatIds : Contiguous(store_chats[c])

\* two handlers of chat 1 wait for their reply sends at the same time; the
\* second read the two Turns of the first, and its own Turns follow them
C16_Witness ==
    \E h, k \in Tasks :
        /\ SameChat(h, k)
        /\ pc[h] = "await_send" /\ pc[k] = "await_send"
        /\ Len(WrittenBy(h, upd[h].chat_id)) = 2
        /\ Len(WrittenBy(k, upd[k].chat_id)) = 2
        /\ Len(history[k]) = Len(history[h]) + 2
        /\ LET hist == store_chats[upd[h].chat_id]
           IN  hist[Len(hist)].ex = k /\ hist[Len(hist) - 2].ex = h
(* ---------------- C17 ---------------- *)

\* the children of a chat are the Turns of complete exchanges: a user Turn
\* followed by the bot Turn of the same exchange, no placeholder, no user
\* Turn left alone
CompleteExchanges(hist) ==
    /\ Len(hist) % 2 = 0
    /\ \A i \in 1..Len(hist) :
          /\ IsTurn(hist[i])
          /\ hist[i].sender = (IF i % 2 = 1 THEN "user" ELSE "bot")
          /\ i % 2 = 1 => hist[i + 1].ex = hist[i].ex

\* the children of chat c that handlers other than h have written, and
\* those recorded before the process started
WithoutOwn(h, c) == SelectSeq(store_chats[c], LAMBDA rec : rec.ex # h)

\* roles user, model, user, model, ..., ending with model
Alternates(ctx) ==
    /\ Len(ctx) % 2 = 0
    /\ \A i \in 1..Len(ctx) : ctx[i].role = (IF i % 2 = 1 THEN "user" ELSE "model")

\* C17: when the history of a chat holds only Turns this program wrote and
\* no append has failed (the chat holds complete exchanges only), the context
\* a handler of that chat passes to the generation backend, when not empty,
\* alternates user, model, user, model, begins with user and ends with model.
C17_ContextAlternates ==
    \A h \in Tasks :
        /\ Len(prompt[h]) = 1
        /\ CompleteExchanges(WithoutOwn(h, upd[h].chat_id))
        => /\ prompt[h][1].history = history[h]
           /\ Alternates(history[h])
           /\ history[h] # <<>> =>
                 /\ history[h][1].role = "user"
                 /\ history[h][Len(history[h])].role = "model"

\* the second of two messages of chat 1, handled after the first left its
\* two Turns behind five earlier exchanges, got the last ten of twelve Turns
C17_Witness ==
    \E h, k \in Tasks :
        /\ SameChat(h, k)
        /\ pc[k] = "gone"
        /\ Len(WithoutOwn(h, upd[h].chat_id)) = HistoryLimit + 2
        /\ CompleteExchanges(WithoutOwn(h, upd[h].chat_id))
        /\ Outcome(h, "gen", "ok")
        /\ Len(prompt[h][1].history) = HistoryLimit
(* ---------------- C18 ---------------- *)

\* new is old with children appended and placeholders of exchange h filled
\* in; no filled child is changed or removed
OnlyAppends(old, new, h) ==
    /\ Len(new) >= Len(old)
    /\ \A i \in 1..Len(old) :
          new[i] # old[i] => old[i].has = {} /\ old[i].ex = h /\ new[i].ex = h
    /\ \A i \in (Len(old) + 1)..Len(new) : new[i].ex = h

\* every entry of the context comes from a Turn stored under the chat
BuiltFrom(ctx, hist) ==
    /\ Len(ctx) <= Len(hist)
    /\ \A k \in 1..Len(ctx) :
          \E i \in 1..Len(hist) :
              /\ "text" \in hist[i].has
              /\ hist[i].text = ctx[k].parts
              /\ RoleOf(hist[i].sender) = ctx[k].role

\* C18: handling a message of chat A touches only chat A's history.  In
\* every step the context a handler reads is built from the children of its
\* own chat; a chat changes only by a handler of that chat appending a child
\* or filling the child it pushed; no stored Turn and no inbox record is
\* changed or removed; every other chat stays as it is.
C18_TouchesOnlyOwnChat ==
    [][ /\ \A c \in ChatIds :
              store_chats'[c] # store_chats[c] =>
                  /\ running # 0
                  /\ upd[running].chat_id = c
                  /\ OnlyAppends(store_chats[c], store_chats'[c], running)
        /\ store_inbox' # store_inbox =>
              /\ running # 0
              /\ OnlyAppends(store_inbox, store_inbox', running)
        /\ \A h \in Tasks :
              pc[h] = "read" /\ pc'[h] = "gen" =>
                  BuiltFrom(history'[h], store_chats[upd[h].chat_id])
      ]_vars

\* a message of chat 2 was handled while a message of chat 1 waited for its
\* reply send: each chat gained the two Turns of its own exchange, and the
\* context of the chat-2 message is empty beside a chat 1 of ten Turns
C18_Witness ==
    \E h, k \in Tasks :
        /\ upd[h].chat_id = 1 /\ upd[k].chat_id = 2
        /\ pc[h] = "await_send" /\ pc[k] = "await_send"
        /\ Outcome(k, "read", "ok") /\ history[k] = <<>>
        /\ Len(history[h]) = HistoryLimit
        /\ Len(WrittenBy(h, 1)) = 2 /\ Len(WrittenBy(k, 2)) = 2
        /\ Len(store_chats[1]) = HistoryLimit + 2 /\ Len(store_chats[2]) = 2
====
